---------------------------- MODULE Spec2Model ----------------------------
(***************************************************************************)
(* Model of the chat persistence layer of database.py: one SQLite table    *)
(* "messages" reached through peewee, and the six store operations         *)
(* initialize_database, save_message, get_chat_history, delete_chat,       *)
(* get_chat_folders and search_messages.                                   *)
(*                                                                         *)
(* Text columns question/answer are sequences of characters, so that the   *)
(* LIKE match of search_messages is a real substring test.  chat_id is a   *)
(* string; the empty string is the one falsy text value of Python.         *)
(* Timestamps are clock ticks: datetime.now() is the local wall clock, so  *)
(* a save may observe any tick, also one earlier than a previous save.     *)
(***************************************************************************)
EXTENDS Integers, Sequences, FiniteSets, TLC

VARIABLES rows, connOpen, storage, maxCreated, lastOp

vars == <<rows, connOpen, storage, maxCreated, lastOp>>

(* ---------------------------- bounds ----------------------------------- *)
MaxRows == 2
MaxTime == 2
MaxIdValue == 3

(* ------------------------- program constants --------------------------- *)
HistoryDefaultLimit == 50
SearchDefaultLimit == 10

(* --------------------------- input domains ----------------------------- *)
Times == 1..MaxTime
ChatIds == {"", "c1", "c2"}
(* The (question, answer) exchanges a caller may save.                     *)
Exchanges == {<<(<<"a">>), (<<"b">>)>>, <<(<<"B", "a">>), (<<"a">>)>>}
Queries == {<<"a">>, <<"b", "a">>}
Limits == {-1, 0, 1, HistoryDefaultLimit}
SearchLimits == {1, SearchDefaultLimit}

(* --------------------------- the Messages row -------------------------- *)
(* Variant: the question and answer columns are filled the wrong way round.*)
MessagesSwapped(id, question, answer, timestamp, chat_id) ==
    [id |-> id, question |-> answer, answer |-> question,
     timestamp |-> timestamp, chat_id |-> chat_id]

Messages(id, question, answer, timestamp, chat_id) ==
    [id |-> id, question |-> question, answer |-> answer,
     timestamp |-> timestamp, chat_id |-> chat_id]

(* id = AutoField(): an SQLite INTEGER PRIMARY KEY without AUTOINCREMENT,  *)
(* which takes one more than the largest id currently in the table.        *)
MaxId(S) == IF S = {} THEN 0 ELSE CHOOSE i \in {m.id : m \in S} :
                                     \A j \in {m.id : m \in S} : j <= i

(* Variant: the id is derived from the number of stored rows.              *)
AutoFieldCount(S) == Cardinality(S) + 1

AutoField(S) == MaxId(S) + 1

(* Variant: the composite index is declared without uniqueness.           *)
UniqueIndexNotEnforced(S, chat_id, timestamp) == FALSE

(* Meta.indexes: the unique composite index on (chat_id, timestamp).       *)
UniqueIndexViolated(S, chat_id, timestamp) ==
    \E m \in S : m.chat_id = chat_id /\ m.timestamp = timestamp

(* Variant: the row stays in the table although the statement raised.      *)
InsertRowAlways(S, new, raised) == S \cup {new}

(* INSERT INTO messages: the row is added unless the statement raised.     *)
InsertRow(S, new, raised) == IF raised THEN S ELSE S \cup {new}

(* ------------------------ connection management ------------------------ *)
(* db.connect(reuse_if_open=True): an open connection is reused, a closed  *)
(* one is opened unless the storage medium refuses.                        *)
Connect(open, connectFails) == open \/ ~connectFails

(* Variant: the close is not in a finally clause, so a body that raises    *)
(* leaves the connection as connect left it.                               *)
DbConnectionNoFinally(open, connectFails, bodyRaises) ==
    IF bodyRaises THEN Connect(open, connectFails) ELSE FALSE

(* db_connection(): try: connect; yield  finally: close if not closed.     *)
(* The value is the connection state the context manager leaves behind     *)
(* (TRUE = open), whether or not the body raised.                          *)
db_connection(open, connectFails, bodyRaises) ==
    LET afterTry == Connect(open, connectFails)
    IN  IF afterTry THEN FALSE ELSE afterTry

(* ------------------------------ queries -------------------------------- *)
Min(a, b) == IF a <= b THEN a ELSE b

(* Variant: ascending order.                                               *)
OrderByTimestampAsc(S) ==
    {s \in [1..Cardinality(S) -> S] :
        /\ \A i, j \in 1..Cardinality(S) : i # j => s[i] # s[j]
        /\ \A i, j \in 1..Cardinality(S) : i < j => s[i].timestamp <= s[j].timestamp}

(* ORDER BY timestamp DESC: every arrangement of S with non-increasing     *)
(* timestamps; rows with equal timestamps come in an engine-chosen order.  *)
OrderByTimestampDesc(S) ==
    {s \in [1..Cardinality(S) -> S] :
        /\ \A i, j \in 1..Cardinality(S) : i # j => s[i] # s[j]
        /\ \A i, j \in 1..Cardinality(S) : i < j => s[i].timestamp >= s[j].timestamp}

(* Variant: the limit is not applied.                                      *)
ApplyLimitIgnored(s, k) == s

(* LIMIT k: the first k rows; SQLite reads a negative k as no limit.       *)
ApplyLimit(s, k) == IF k < 0 THEN s ELSE SubSeq(s, 1, Min(k, Len(s)))

(* if chat_id: query.where(Messages.chat_id == chat_id)                    *)
HistoryFilter(S, chat_id) ==
    IF chat_id # "" THEN {m \in S : m.chat_id = chat_id} ELSE S

get_chat_history(S, chat_id, limit) ==
    {ApplyLimit(s, limit) : s \in OrderByTimestampDesc(HistoryFilter(S, chat_id))}

(* question.contains(q): LIKE '%q%', which SQLite matches without regard   *)
(* to ASCII case.                                                          *)
Lower(ch) == IF ch = "A" THEN "a" ELSE IF ch = "B" THEN "b" ELSE ch

Contains(text, q) ==
    \E i \in 0..(Len(text) - Len(q)) :
        \A j \in 1..Len(q) : Lower(text[i + j]) = Lower(q[j])

search_messages(S, q, limit) ==
    {ApplyLimit(s, limit) :
        s \in OrderByTimestampDesc({m \in S : Contains(m.question, q)
                                              \/ Contains(m.answer, q)})}

(* Variant: MIN instead of MAX.                                            *)
MinTimestamp(S) == CHOOSE t \in {m.timestamp : m \in S} :
                       \A u \in {m.timestamp : m \in S} : t <= u

(* GROUP BY chat_id with MAX(timestamp) AS last_message and a bare         *)
(* question column taken from some row of the group.                       *)
MaxTimestamp(S) == CHOOSE t \in {m.timestamp : m \in S} :
                       \A u \in {m.timestamp : m \in S} : u <= t

Group(S, chat_id) == {m \in S : m.chat_id = chat_id}

FolderRows(S) ==
    {f \in [chat_id : {m.chat_id : m \in S},
            question : {m.question : m \in S},
            last_message : {m.timestamp : m \in S}] :
        /\ f.last_message = MaxTimestamp(Group(S, f.chat_id))
        /\ \E m \in Group(S, f.chat_id) : m.question = f.question}

(* ORDER BY last_message DESC over one folder row per chat_id.             *)
get_chat_folders(S) ==
    {s \in [1..Cardinality({m.chat_id : m \in S}) -> FolderRows(S)] :
        /\ \A i, j \in DOMAIN s : i # j => s[i].chat_id # s[j].chat_id
        /\ \A i, j \in DOMAIN s : i < j => s[i].last_message >= s[j].last_message}

(* DELETE FROM messages WHERE chat_id = ?                                  *)
DeleteWhere(S, chat_id) == {m \in S : m.chat_id # chat_id}

(* .execute() of the DELETE: the number of rows removed.                   *)
DeleteCount(S, chat_id) == Cardinality(S) - Cardinality(DeleteWhere(S, chat_id))

(* ------------------------- observation records ------------------------- *)
(* lastOp is the last operation that returned: its arguments, whether an   *)
(* exception was caught inside it, its return value (ret for the boolean   *)
(* operations, result for the listing ones) and the rows it affected.      *)
NoText == <<>>

OpRecord(op, chat_id, limit, question, answer, timestamp, raised, ret, count, result) ==
    [op |-> op, chat_id |-> chat_id, limit |-> limit, question |-> question,
     answer |-> answer, timestamp |-> timestamp, raised |-> raised,
     ret |-> ret, count |-> count, result |-> result]

NoOp == OpRecord("import", "", 0, NoText, NoText, 0, FALSE, FALSE, 0, <<>>)

(* ------------------------------- Init ---------------------------------- *)
(* State after "import database": the module's last statement has run      *)
(* initialize_database(), the table exists and is empty, connection closed.*)
(* maxCreated is the largest id any message was ever created with.         *)
(* storage is the condition of the storage medium: "up", "unreachable"     *)
(* (db.connect raises) or "failing" (the statement raises: locked file,    *)
(* full disk).                                                             *)
StorageStates == {"up", "unreachable", "failing"}

Init ==
    /\ rows = {}
    /\ connOpen = FALSE
    /\ storage = "up"
    /\ maxCreated = 0
    /\ lastOp = NoOp

(* ------------------------------ actions -------------------------------- *)
initialize_database ==
    /\ connOpen' = db_connection(connOpen, storage = "unreachable", storage # "up")
    /\ lastOp' = OpRecord("initialize", "", 0, NoText, NoText, 0,
                          storage # "up", FALSE, 0, <<>>)
    /\ UNCHANGED <<rows, storage, maxCreated>>

save_message ==
    \E exchange \in Exchanges, chat_id \in ChatIds, now \in Times :
        LET question == exchange[1]
            answer == exchange[2]
            raised == storage # "up" \/ UniqueIndexViolated(rows, chat_id, now)
            new == Messages(AutoField(rows), question, answer, now, chat_id)
        IN  /\ Cardinality(rows) < MaxRows
            /\ AutoField(rows) <= MaxIdValue
            /\ rows' = InsertRow(rows, new, raised)
            /\ connOpen' = db_connection(connOpen, storage = "unreachable", raised)
            /\ lastOp' = OpRecord("save", chat_id, 0, question, answer, now,
                                  raised, ~raised,
                                  Cardinality(rows') - Cardinality(rows),
                                  IF raised THEN <<>> ELSE <<new>>)
            /\ maxCreated' = IF ~raised /\ new.id > maxCreated
                             THEN new.id ELSE maxCreated
            /\ UNCHANGED storage

GetChatHistory ==
    \E chat_id \in ChatIds, limit \in Limits :
        \E res \in (IF storage # "up" THEN {<<>>}
                    ELSE get_chat_history(rows, chat_id, limit)) :
            /\ connOpen' = db_connection(connOpen, storage = "unreachable", storage # "up")
            /\ lastOp' = OpRecord("history", chat_id, limit, NoText, NoText, 0,
                                  storage # "up", FALSE, 0, res)
            /\ UNCHANGED <<rows, storage, maxCreated>>

delete_chat ==
    \E chat_id \in ChatIds :
        LET raised == storage # "up"
            after == IF raised THEN rows ELSE DeleteWhere(rows, chat_id)
            count == IF raised THEN 0 ELSE DeleteCount(rows, chat_id)
        IN  /\ rows' = after
            /\ connOpen' = db_connection(connOpen, storage = "unreachable", raised)
            /\ lastOp' = OpRecord("delete", chat_id, 0, NoText, NoText, 0, raised,
                                  count > 0, count, <<>>)
            /\ UNCHANGED <<storage, maxCreated>>

GetChatFolders ==
    \E res \in (IF storage # "up" THEN {<<>>} ELSE get_chat_folders(rows)) :
        /\ connOpen' = db_connection(connOpen, storage = "unreachable", storage # "up")
        /\ lastOp' = OpRecord("folders", "", 0, NoText, NoText, 0,
                              storage # "up", FALSE, 0, res)
        /\ UNCHANGED <<rows, storage, maxCreated>>

SearchMessages ==
    \E q \in Queries, limit \in SearchLimits :
        \E res \in (IF storage # "up" THEN {<<>>}
                    ELSE search_messages(rows, q, limit)) :
            /\ connOpen' = db_connection(connOpen, storage = "unreachable", storage # "up")
            /\ lastOp' = OpRecord("search", "", limit, q, NoText, 0,
                                  storage # "up", FALSE, 0, res)
            /\ UNCHANGED <<rows, storage, maxCreated>>

(* The environment: the storage medium becomes unavailable or recovers.    *)
StorageChange ==
    /\ storage' \in StorageStates \ {storage}
    /\ UNCHANGED <<rows, connOpen, maxCreated, lastOp>>

Next ==
    \/ initialize_database
    \/ save_message
    \/ GetChatHistory
    \/ delete_chat
    \/ GetChatFolders
    \/ SearchMessages

NextFault ==
    \/ Next
    \/ StorageChange

(* Spec: the storage medium stays available.  SpecFault: it may fail.      *)
Spec == Init /\ [][Next]_vars

SpecFault == Init /\ [][NextFault]_vars

(* ============================ properties =============================== *)
(* A listing result contains a message with this question, answer, chat_id *)
Includes(res, question, answer, chat_id) ==
    \E i \in DOMAIN res : /\ res[i].question = question
                          /\ res[i].answer = answer
                          /\ res[i].chat_id = chat_id

(* The rows of a listing result that belong to one conversation.           *)
Positions(res, chat_id) == {i \in DOMAIN res : res[i].chat_id = chat_id}

(* A step in which save_message ran and returned.                          *)
SaveStep == lastOp'.op = "save" /\ lastOp' # lastOp

(* ------------------------------- C1 ------------------------------------ *)
(* C1: when two distinct chat_ids A and B both have saved messages, the    *)
(* result of GetChatHistory(A) holds no message of B, for every text A,    *)
(* the empty string included.                                              *)
C1_Scoping ==
    lastOp.op = "history" =>
        \A B \in ChatIds \ {lastOp.chat_id} :
            (Group(rows, lastOp.chat_id) # {} /\ Group(rows, B) # {})
                => Positions(lastOp.result, B) = {}

(* ------------------------------- C2 ------------------------------------ *)
(* C2 as stated: after any SaveMessage(question, answer, chat_id), the     *)
(* GetChatHistory(chat_id) that follows it immediately includes a message  *)
(* with that question, answer and chat_id.                                 *)
C2_RoundTrip ==
    lastOp.op = "save" =>
        \A res \in get_chat_history(rows, lastOp.chat_id, HistoryDefaultLimit) :
            Includes(res, lastOp.question, lastOp.answer, lastOp.chat_id)

(* C2 amended: after a SaveMessage that returned true, the                 *)
(* GetChatHistory(chat_id, limit=k) that follows it immediately includes   *)
(* the message whenever k is negative or fewer than k of the other rows    *)
(* the query selects have a timestamp at or after the saved one.           *)
C2_RoundTripOnSuccess ==
    (lastOp.op = "save" /\ lastOp.ret) =>
        \A k \in Limits :
            LET others == {m \in HistoryFilter(rows, lastOp.chat_id) :
                              /\ m # lastOp.result[1]
                              /\ m.timestamp >= lastOp.timestamp}
            IN  (k < 0 \/ Cardinality(others) < k) =>
                    \A res \in get_chat_history(rows, lastOp.chat_id, k) :
                        Includes(res, lastOp.question, lastOp.answer, lastOp.chat_id)

(* A save succeeded in a conversation that already held a later message.   *)
C2_Witness ==
    /\ lastOp.op = "save" /\ lastOp.ret
    /\ \E m \in Group(rows, lastOp.chat_id) : m.timestamp > lastOp.timestamp

(* ------------------------------- C3 ------------------------------------ *)
(* C3: DeleteChat(X) removes every message of X and returns true exactly   *)
(* when it removed a row; a second DeleteChat(X) would return false; and   *)
(* GetChatHistory(X) afterwards is empty.                                  *)
C3_DeleteComplete ==
    lastOp.op = "delete" =>
        /\ Group(rows, lastOp.chat_id) = {}
        /\ lastOp.ret <=> lastOp.count > 0
        /\ DeleteCount(rows, lastOp.chat_id) = 0
        /\ \A res \in get_chat_history(rows, lastOp.chat_id, HistoryDefaultLimit) :
               res = <<>>

(* ------------------------------- C4 ------------------------------------ *)
(* C4 as stated: for every integer k, GetChatHistory(chat_id, limit=k)     *)
(* returns at most k messages.                                             *)
C4_LimitAnyInteger ==
    lastOp.op = "history" => Len(lastOp.result) <= lastOp.limit

(* C4 amended: for every non-negative integer k, GetChatHistory(chat_id,   *)
(* limit=k) returns at most k messages, even if more match.                *)
C4_LimitNonNegative ==
    (lastOp.op = "history" /\ lastOp.limit >= 0) =>
        Len(lastOp.result) <= lastOp.limit

(* A history call whose limit cut off matching messages.                   *)
C4_Witness ==
    /\ lastOp.op = "history"
    /\ lastOp.limit > 0
    /\ Len(lastOp.result) = lastOp.limit
    /\ Cardinality(HistoryFilter(rows, lastOp.chat_id)) > lastOp.limit

(* ------------------------------- C5 ------------------------------------ *)
(* C5 as stated: GetChatHistory returns the messages of a conversation in  *)
(* strictly descending timestamp order, and the first of them is the most  *)
(* recently saved one (the one with the largest id among those stored).    *)
C5_OrderingMostRecentFirst ==
    lastOp.op = "history" =>
        \A c \in ChatIds :
            LET pos == Positions(lastOp.result, c)
            IN  /\ \A i, j \in pos :
                       i < j => lastOp.result[i].timestamp > lastOp.result[j].timestamp
                /\ \A i \in pos :
                       (\A j \in pos : i <= j) =>
                           \A m \in Group(rows, c) : m.id <= lastOp.result[i].id

(* C5 amended: GetChatHistory returns the messages of a conversation in    *)
(* strictly descending timestamp order; the first is the most recently     *)
(* saved one when the saves of that conversation read increasing clock     *)
(* values.                                                                 *)
C5_Ordering ==
    lastOp.op = "history" =>
        \A c \in ChatIds :
            LET pos == Positions(lastOp.result, c)
                clockIncreases == \A m, n \in Group(rows, c) :
                                      m.id < n.id => m.timestamp < n.timestamp
            IN  /\ \A i, j \in pos :
                       i < j => lastOp.result[i].timestamp > lastOp.result[j].timestamp
                /\ clockIncreases =>
                       \A i \in pos :
                           (\A j \in pos : i <= j) =>
                               \A m \in Group(rows, c) : m.id <= lastOp.result[i].id

(* A history call returned two messages of one conversation.               *)
C5_Witness ==
    /\ lastOp.op = "history"
    /\ lastOp.chat_id # ""
    /\ Cardinality(Positions(lastOp.result, lastOp.chat_id)) >= 2

(* ------------------------------- C6 ------------------------------------ *)
(* C6: GetChatFolders() has exactly one entry for every chat_id with at    *)
(* least one stored message, whose last_message is the largest timestamp   *)
(* of that conversation, and no entry for a chat_id without messages.      *)
C6_FolderAggregation ==
    lastOp.op = "folders" =>
        \A c \in ChatIds :
            LET pos == Positions(lastOp.result, c)
            IN  IF Group(rows, c) = {}
                THEN pos = {}
                ELSE /\ Cardinality(pos) = 1
                     /\ \A i \in pos :
                          /\ \E m \in Group(rows, c) :
                                 m.timestamp = lastOp.result[i].last_message
                          /\ \A m \in Group(rows, c) :
                                 m.timestamp <= lastOp.result[i].last_message

(* Folders were listed while a conversation held two messages.             *)
C6_Witness ==
    /\ lastOp.op = "folders"
    /\ \E c \in ChatIds : Cardinality(Group(rows, c)) >= 2
    /\ Len(lastOp.result) >= 1

(* ------------------------------- C7 ------------------------------------ *)
(* C7: a SaveMessage that succeeds returns true and adds exactly one row;  *)
(* one that fails returns false and leaves the rows unchanged; a save      *)
(* whose (chat_id, timestamp) is already stored fails.                     *)
C7_SaveOutcome ==
    [][SaveStep =>
          /\ lastOp'.ret = ~lastOp'.raised
          /\ lastOp'.ret =>
                 /\ rows \subseteq rows'
                 /\ Cardinality(rows') = Cardinality(rows) + 1
                 /\ lastOp'.result[1] \in rows' \ rows
          /\ ~lastOp'.ret => rows' = rows
          /\ (\E m \in rows : /\ m.chat_id = lastOp'.chat_id
                              /\ m.timestamp = lastOp'.timestamp)
                 => ~lastOp'.ret]_vars

(* A save was refused because of a timestamp collision while the storage   *)
(* medium was available.                                                   *)
C7_Witness ==
    /\ lastOp.op = "save" /\ ~lastOp.ret /\ storage = "up"
    /\ \E m \in rows : /\ m.chat_id = lastOp.chat_id
                       /\ m.timestamp = lastOp.timestamp
                       /\ m.question # lastOp.question

(* ------------------------------- C8 ------------------------------------ *)
(* C8 as stated: every newly created message gets an id strictly greater   *)
(* than the id of every message created before, deleted ones included.     *)
C8_IdsNeverReused ==
    [][(SaveStep /\ lastOp'.ret) => lastOp'.result[1].id > maxCreated]_vars

(* C8 amended: every newly created message gets an id strictly greater     *)
(* than the id of every message stored at that moment, so the stored       *)
(* messages have distinct ids; the id of a deleted message may be given    *)
(* out again.                                                              *)
C8_IdsAboveStored ==
    [][(SaveStep /\ lastOp'.ret) =>
          /\ \A m \in rows : lastOp'.result[1].id > m.id
          /\ \A m, n \in rows' : m.id = n.id => m = n]_vars

(* A message was created next to a stored one, after a larger id existed.  *)
C8_Witness ==
    /\ lastOp.op = "save" /\ lastOp.ret
    /\ Cardinality(rows) >= 2
    /\ lastOp.result[1].id < maxCreated

(* ------------------------------- C9 ------------------------------------ *)
(* C9: every store operation has released the connection when it returns,  *)
(* on failing exit paths too: between operations it is closed.             *)
C9_ConnectionClosed == connOpen = FALSE

(* An operation caught an exception and returned while the storage medium *)
(* was failing.                                                            *)
C9_Witness ==
    /\ lastOp.raised
    /\ lastOp.op \in {"save", "history", "delete", "folders", "search", "initialize"}
    /\ ~connOpen
    /\ storage = "failing"

(* ------------------------------- C10 ----------------------------------- *)
(* C10: no two stored messages share both chat_id and timestamp.           *)
C10_UniqueChatTimestamp ==
    \A m, n \in rows :
        (m.chat_id = n.chat_id /\ m.timestamp = n.timestamp) => m = n

(* A save with the chat_id and timestamp of a stored message was refused.  *)
C10_Witness ==
    /\ lastOp.op = "save" /\ lastOp.raised
    /\ \E m \in rows : /\ m.chat_id = lastOp.chat_id
                       /\ m.timestamp = lastOp.timestamp
                       /\ m.question = lastOp.question

TypeOK ==
    /\ connOpen \in BOOLEAN
    /\ storage \in StorageStates
    /\ maxCreated \in 0..MaxIdValue
    /\ Cardinality(rows) <= MaxRows
    /\ \A m \in rows : m.timestamp \in Times /\ m.chat_id \in ChatIds
=============================================================================
